---- MODULE Spec2Model ----
(***************************************************************************)
(* Model of scripts/edit_mode/ApplyMeshOperatorToSelection.py.             *)
(*                                                                         *)
(* The script constructs one ApplyMeshOperatorToSelection object from the  *)
(* three configuration variables and calls run() on it once.  The host     *)
(* (bpy / bmesh) is the external collaborator: its mode, its edit mesh and *)
(* the calls the script makes into it are state of the model.  Every       *)
(* statement that calls into the host or may raise is one step, so that    *)
(* the state the operator sees, and the state an exception leaves behind,  *)
(* are states of the model.  The verbose_ prints have no effect on state   *)
(* and are left out.                                                       *)
(*                                                                         *)
(* Abstraction of the host: each element kind is a sequence of elements    *)
(* with an identity and a select flag; element.select = True sets the flag *)
(* of that element only (the host's flushing of a face's flag to its edges *)
(* and vertices is not modelled; no property below is about a kind other   *)
(* than the configured one except through deselect-all).                   *)
(***************************************************************************)
EXTENDS Integers, Sequences, FiniteSets, TLC

\* Number of elements of each kind in the mesh when the script starts.
NumElems == 3

Kinds == {"verts", "edges", "faces"}

\* Values the user may have written into SELECTION_TYPE; the last is invalid.
SelectionTypes == Kinds \cup {"polygons"}

\* Values the user may have written into PARAMS.
ParamDicts == {"{}", "{thickness: 0.05}"}

\* Operator identifiers as Python strings (sequences of characters).
ID_MESH_INSET == <<"m","e","s","h",".","i","n","s","e","t">>
ID_MESH_DELETE == <<"m","e","s","h",".","d","e","l","e","t","e">>
ID_MESH_SELECT_MORE == <<"m","e","s","h",".","s","e","l","e","c","t","_","m","o","r","e">>
ID_MESH_FLIP_NORMALS == <<"m","e","s","h",".","f","l","i","p","_","n","o","r","m","a","l","s">>
ID_OBJECT_SHADE_SMOOTH == <<"o","b","j","e","c","t",".","s","h","a","d","e">>
ID_MESHES_OP == <<"m","e","s","h","e","s",".","o","p">>

\* What the user may have written into ACTION (CFG_ACTION below).  callable: Python's callable();
\* has_idname: whether the object has an idname_py method; idname: what it
\* returns; effect: what a call does to the edit mesh.
\*   flip_normals : no topology change, no selection change
\*   select_more  : selects further elements
\*   inset        : creates new elements and leaves them selected
\*   delete       : removes the selected elements (later elements move down)
\*   shade_smooth : an operator of another category (bpy.ops.object)
\*   meshes_op    : an operator whose category merely starts with "mesh"
\*   lambda       : a plain Python callable, no idname_py
\*   "mesh.inset" : a string, not callable
Actions ==
    { [name |-> "bpy.ops.mesh.flip_normals", callable |-> TRUE, has_idname |-> TRUE,
       idname |-> ID_MESH_FLIP_NORMALS, effect |-> "noop"],
      [name |-> "bpy.ops.mesh.select_more", callable |-> TRUE, has_idname |-> TRUE,
       idname |-> ID_MESH_SELECT_MORE, effect |-> "select"],
      [name |-> "bpy.ops.mesh.inset", callable |-> TRUE, has_idname |-> TRUE,
       idname |-> ID_MESH_INSET, effect |-> "add"],
      [name |-> "bpy.ops.mesh.delete", callable |-> TRUE, has_idname |-> TRUE,
       idname |-> ID_MESH_DELETE, effect |-> "delete"],
      [name |-> "bpy.ops.object.shade_smooth", callable |-> TRUE, has_idname |-> TRUE,
       idname |-> ID_OBJECT_SHADE_SMOOTH, effect |-> "noop"],
      [name |-> "bpy.ops.meshes.op", callable |-> TRUE, has_idname |-> TRUE,
       idname |-> ID_MESHES_OP, effect |-> "noop"],
      [name |-> "lambda", callable |-> TRUE, has_idname |-> FALSE,
       idname |-> <<>>, effect |-> "noop"],
      [name |-> "'mesh.inset'", callable |-> FALSE, has_idname |-> FALSE,
       idname |-> <<>>, effect |-> "noop"] }

\* Value of the fields before __init__ assigns them.
Unset == [name |-> "unset", callable |-> FALSE, has_idname |-> FALSE,
          idname |-> <<>>, effect |-> "noop"]

VARIABLES
    mode,            \* bpy.context.active_object.mode
    bm,              \* the host's edit mesh: kind -> sequence of [id, select]
    SELECTION_TYPE,  \* configuration variables of the script
    CFG_ACTION,
    PARAMS,
    sel_type_,       \* fields of the ApplyMeshOperatorToSelection object
    action_,
    param_dict_,
    selection_,
    bm_,             \* TRUE once bmesh.from_edit_mesh has returned the handle
    idx_i,           \* position of the running for loop in selection_
    pc,              \* position of the script
    error,           \* the exception that ended the script, "none" if none
    log,             \* the calls made into the host so far
    mode0,           \* the host mode when the script started
    bm0              \* the edit mesh when the script started

vars == <<mode, bm, SELECTION_TYPE, CFG_ACTION, PARAMS, sel_type_, action_, param_dict_,
          selection_, bm_, idx_i, pc, error, log, mode0, bm0>>

config == <<SELECTION_TYPE, CFG_ACTION, PARAMS, mode0, bm0>>
fields == <<sel_type_, action_, param_dict_>>

\* ---------------------------------------------------------------- helpers

MinOf(S) == CHOOSE x \in S : \A y \in S : x <= y

\* One entry of the log of host calls.
\* op: the host function; arg: its argument; idx: the element index it is
\* about (-1 if none); res: how an operator call ended ("" for other calls).
Call(op, arg, idx, res) == [op |-> op, arg |-> arg, idx |-> idx, res |-> res]

\* s.split('.')[0]
split_first(s) ==
    LET dots == {k \in 1..Len(s) : s[k] = "."}
    IN  IF dots = {} THEN s ELSE SubSeq(s, 1, MinOf(dots) - 1)

STR_MESH == <<"m","e","s","h">>

\* [p.index for p in getattr(bm_, kind) if p.select == True]; index is 0-based.
selected_indices(m, kind) ==
    LET pos == {p \in 1..Len(m[kind]) : m[kind][p].select}
        F[S \in SUBSET (1..Len(m[kind]))] ==
            IF S = {} THEN <<>>
            ELSE LET lo == MinOf(S) IN <<lo - 1>> \o F[S \ {lo}]
    IN  F[pos]

\* A deselect-all that clears nothing.
DeselectAllNoop(m) == m

\* bpy.ops.mesh.select_all(action='DESELECT'): every flag of every kind is cleared.
deselect_all(m) ==
    [k \in Kinds |-> [p \in 1..Len(m[k]) |-> [m[k][p] EXCEPT !.select = FALSE]]]

\* A select that also marks the element after idx.
SelectSingleAlsoNext(m, kind, idx) ==
    [m EXCEPT ![kind] = [p \in 1..Len(m[kind]) |->
        IF p = idx + 1 \/ p = idx + 2 THEN [m[kind][p] EXCEPT !.select = TRUE]
        ELSE m[kind][p]]]

\* getattr(bm_, kind)[idx].select = True, for an idx in range.
select_single_instance(m, kind, idx) ==
    [m EXCEPT ![kind][idx + 1].select = TRUE]

\* Whether getattr(bm_, kind)[idx] exists (otherwise the lookup raises IndexError).
in_range(m, kind, idx) == idx + 1 \in 1..Len(m[kind])

\* The largest element identity in use, for the identity of a created element.
MaxId(m) ==
    LET ids == {0} \cup UNION {{m[k][p].id : p \in 1..Len(m[k])} : k \in Kinds}
    IN  CHOOSE x \in ids : \A y \in ids : y <= x

\* The edit mesh after one call of the operator.
apply_effect(m, effect) ==
    CASE effect = "noop" -> m
      [] effect = "select" ->
            [k \in Kinds |-> [p \in 1..Len(m[k]) |-> [m[k][p] EXCEPT !.select = TRUE]]]
      [] effect = "add" ->
            [k \in Kinds |-> Append(m[k], [id |-> MaxId(m) + 1, select |-> TRUE])]
      [] effect = "delete" ->
            [k \in Kinds |-> SelectSeq(m[k], LAMBDA e : ~e.select)]
      [] OTHER -> m

\* ------------------------------------------------------------------- Init

\* The mesh the artist left: NumElems elements of each kind, any set of them
\* marked selected, independently for each kind.
InitialMeshes ==
    [Kinds -> { [p \in 1..NumElems |-> [id |-> p, select |-> (p \in S)]] :
                  S \in SUBSET (1..NumElems) }]

Init ==
    /\ mode \in {"EDIT", "OBJECT"}
    /\ bm \in InitialMeshes
    /\ SELECTION_TYPE \in SelectionTypes
    /\ CFG_ACTION \in Actions
    /\ PARAMS \in ParamDicts
    /\ sel_type_ = "unset"
    /\ action_ = Unset
    /\ param_dict_ = "unset"
    /\ selection_ = <<>>
    /\ bm_ = FALSE
    /\ idx_i = 0
    /\ pc = "init"
    /\ error = "none"
    /\ log = <<>>
    /\ mode0 = mode
    /\ bm0 = bm

\* ---------------------------------------------------------------- actions

\* An edit-mode check that accepts every mode.
InEditModeAlways(m) == TRUE

\* bpy.context.active_object.mode == "EDIT"
in_edit_mode(m) == m = "EDIT"

\* __init__, lines 66-72: the edit-mode check and the assignment of the fields.
init ==
    /\ pc = "init"
    /\ IF ~in_edit_mode(mode)
       THEN /\ error' = "EnvironmentError"
            /\ pc' = "failed"
            /\ UNCHANGED fields
       ELSE /\ sel_type_' = SELECTION_TYPE
            /\ action_' = CFG_ACTION
            /\ param_dict_' = PARAMS
            /\ pc' = "validate_selection_type"
            /\ UNCHANGED error
    /\ UNCHANGED <<mode, bm, config, selection_, bm_, idx_i, log>>

\* A kind check that accepts every name.
ValidSelectionTypeLoose(t) == TRUE

\* self.sel_type_ in ["verts", "edges", "faces"]
ValidSelectionType(t) == t \in {"verts", "edges", "faces"}

validate_selection_type ==
    /\ pc = "validate_selection_type"
    /\ IF ~ValidSelectionType(sel_type_)
       THEN error' = "NameError" /\ pc' = "failed"
       ELSE pc' = "validate_action" /\ UNCHANGED error
    /\ UNCHANGED <<mode, bm, config, fields, selection_, bm_, idx_i, log>>

\* The exception __validate_action raises for action a, "none" if it returns.
validate_action_result(a) ==
    IF ~a.callable THEN "TypeError"
    ELSE IF ~a.has_idname THEN "AttributeError"
    ELSE IF split_first(a.idname) # STR_MESH THEN "TypeError"
    ELSE "none"

validate_action ==
    /\ pc = "validate_action"
    /\ LET r == validate_action_result(action_)
       IN  IF r # "none"
           THEN error' = r /\ pc' = "failed"
           ELSE pc' = "read_selection" /\ UNCHANGED error
    /\ UNCHANGED <<mode, bm, config, fields, selection_, bm_, idx_i, log>>

\* A __read_selection that does not re-enter edit mode.
ReadSelectionNoReentry ==
    << Call("mode_set", "OBJECT", -1, ""), Call("from_edit_mesh", "", -1, "") >>

\* The host calls of __read_selection, in order.
read_selection_calls ==
    << Call("mode_set", "OBJECT", -1, ""), Call("mode_set", "EDIT", -1, ""),
       Call("from_edit_mesh", "", -1, "") >>

\* The host mode after a sequence of calls made in mode m.
RECURSIVE mode_after(_, _)
mode_after(m, calls) ==
    IF calls = <<>> THEN m
    ELSE mode_after(IF Head(calls).op = "mode_set" THEN Head(calls).arg ELSE m, Tail(calls))

read_selection ==
    /\ pc = "read_selection"
    /\ log' = log \o read_selection_calls
    /\ mode' = mode_after(mode, read_selection_calls)
    /\ bm_' = TRUE
    /\ pc' = "constructed"
    /\ UNCHANGED <<bm, config, fields, selection_, idx_i, error>>

\* A __store_selection without the emptiness check.
StoreNeverRaises(sel) == FALSE

\* Whether __store_selection raises UserWarning for the captured list.
store_raises(sel) == Len(sel) = 0

\* run(), line 125.
store_selection ==
    /\ pc = "constructed"
    /\ selection_' = selected_indices(bm, sel_type_)
    /\ IF store_raises(selection_')
       THEN error' = "UserWarning" /\ pc' = "failed"
       ELSE pc' = "deselect_all" /\ UNCHANGED error
    /\ UNCHANGED <<mode, bm, config, fields, bm_, idx_i, log>>

\* The parameters an invocation passes to the operator: **self.param_dict_.
call_params(p) == p

\* A loop that stops after its first iteration.
AfterIterationStopEarly(i, n) == IF i < 1 THEN "execute_select" ELSE "restore_selection"

\* Where the for loop of __execute_action_on_selection goes after i of n
\* iterations: to the next index, or on to __restore_selection.
after_iteration(i, n) == IF i < n THEN "execute_select" ELSE "restore_selection"

\* An operator call whose exception is caught and the loop continued.
AfterCallSwallow(raises) == "execute_deselect"

\* Where the script goes when the operator call has returned or raised: no
\* try/except surrounds the call, so an exception ends the script.
after_call(raises) == IF raises THEN "failed" ELSE "execute_deselect"

\* run(), line 126.
run_deselect_all ==
    /\ pc = "deselect_all"
    /\ bm' = deselect_all(bm)
    /\ log' = Append(log, Call("select_all", "DESELECT", -1, ""))
    /\ idx_i' = 1
    /\ pc' = after_iteration(0, Len(selection_))
    /\ UNCHANGED <<mode, config, fields, selection_, bm_, error>>

\* __execute_action_on_selection, line 114.
execute_select ==
    /\ pc = "execute_select"
    /\ LET idx == selection_[idx_i]
       IN  IF in_range(bm, sel_type_, idx)
           THEN /\ bm' = select_single_instance(bm, sel_type_, idx)
                /\ log' = Append(log, Call("select", sel_type_, idx, ""))
                /\ pc' = "execute_action"
                /\ UNCHANGED error
           ELSE /\ error' = "IndexError"
                /\ pc' = "failed"
                /\ UNCHANGED <<bm, log>>
    /\ UNCHANGED <<mode, config, fields, selection_, bm_, idx_i>>

\* __execute_action_on_selection, line 117: the operator returns or raises; when
\* it raises it may or may not have changed the mesh already.
execute_action ==
    /\ pc = "execute_action"
    /\ \E raises \in BOOLEAN, applied \in BOOLEAN :
        /\ (~raises) => applied
        /\ bm' = IF applied THEN apply_effect(bm, action_.effect) ELSE bm
        /\ log' = Append(log, Call("action", call_params(param_dict_), selection_[idx_i],
                                   IF ~raises THEN "returned"
                                   ELSE IF applied THEN "raised_midway" ELSE "raised"))
        /\ error' = IF raises THEN "OperatorError" ELSE error
        /\ pc' = after_call(raises)
    /\ UNCHANGED <<mode, config, fields, selection_, bm_, idx_i>>

\* __execute_action_on_selection, line 118, and the loop's advance.
execute_deselect ==
    /\ pc = "execute_deselect"
    /\ bm' = deselect_all(bm)
    /\ log' = Append(log, Call("select_all", "DESELECT", -1, ""))
    /\ pc' = after_iteration(idx_i, Len(selection_))
    /\ idx_i' = IF idx_i < Len(selection_) THEN idx_i + 1 ELSE 1
    /\ UNCHANGED <<mode, config, fields, selection_, bm_, error>>

\* A restore that re-selects the first captured index only.
RestoreFirstOnly(sel) == SubSeq(sel, 1, 1)

\* The indices __restore_selection selects, in order.
restore_indices(sel) == sel

\* __restore_selection, lines 121-122, one iteration.
restore_selection ==
    /\ pc = "restore_selection"
    /\ IF idx_i > Len(restore_indices(selection_))
       THEN /\ pc' = "done"
            /\ UNCHANGED <<bm, log, error, idx_i>>
       ELSE LET idx == restore_indices(selection_)[idx_i]
            IN  IF in_range(bm, sel_type_, idx)
                THEN /\ bm' = select_single_instance(bm, sel_type_, idx)
                     /\ log' = Append(log, Call("restore", sel_type_, idx, ""))
                     /\ idx_i' = idx_i + 1
                     /\ UNCHANGED <<pc, error>>
                ELSE /\ error' = "IndexError"
                     /\ pc' = "failed"
                     /\ UNCHANGED <<bm, log, idx_i>>
    /\ UNCHANGED <<mode, config, fields, selection_, bm_>>

Next ==
    \/ init
    \/ validate_selection_type
    \/ validate_action
    \/ read_selection
    \/ store_selection
    \/ run_deselect_all
    \/ execute_select
    \/ execute_action
    \/ execute_deselect
    \/ restore_selection

Spec == Init /\ [][Next]_vars

\* ------------------------------------------------------------- properties

\* Positions (1-based) of the selected elements of a kind, and their identities.
SelectedPos(m, kind) == {p \in 1..Len(m[kind]) : m[kind][p].select}
SelectedIds(m, kind) == {m[kind][p].id : p \in SelectedPos(m, kind)}

\* Positions the captured indices denote.
CapturedPos == {selection_[j] + 1 : j \in 1..Len(selection_)}

\* The element indices of the log's calls of one host function, in order.
IdxOf(op) ==
    LET calls == SelectSeq(log, LAMBDA c : c.op = op)
    IN  [j \in 1..Len(calls) |-> calls[j].idx]

CountOf(op) == Len(SelectSeq(log, LAMBDA c : c.op = op))

IsPrefix(s, t) == Len(s) <= Len(t) /\ s = SubSeq(t, 1, Len(s))

\* run() has been entered (construction succeeded and its first statement ran).
RunStarted == bm_ /\ pc # "constructed"

\* run() has ended, normally or by an exception.
RunEnded == RunStarted /\ pc \in {"done", "failed"}

ElementCalls == {"select_all", "select", "action", "restore"}

NoElementCall == \A j \in 1..Len(log) : log[j].op \notin ElementCalls

\* C1: at every operator invocation of the apply loop exactly one element of the
\* configured kind is selected, the element at the current loop index, however
\* many elements were selected together when the run started.
C1_OneSelectedAtInvocation ==
    pc = "execute_action" =>
        /\ sel_type_ \in Kinds
        /\ SelectedPos(bm, sel_type_) = {selection_[idx_i] + 1}
        /\ Cardinality(SelectedPos(bm, sel_type_)) = 1

\* C1 witness: the second invocation of a run that captured three elements.
C1_Witness ==
    /\ pc = "execute_action"
    /\ Len(selection_) = 3
    /\ idx_i = 2
    /\ SelectedPos(bm, sel_type_) = {selection_[2] + 1}

\* C2: after a run with an operator that changes neither topology nor selection,
\* the selected elements of the configured kind are the initially selected ones.
C2_NoopRestoresSelection ==
    (pc = "done" /\ action_.effect = "noop") =>
        /\ SelectedIds(bm, sel_type_) = SelectedIds(bm0, sel_type_)
        /\ bm[sel_type_] = bm0[sel_type_]
        /\ IdxOf("restore") = selected_indices(bm0, sel_type_)

\* C2 witness: three selected faces, identity operator, empty parameters.
C2_Witness ==
    /\ pc = "done"
    /\ action_.effect = "noop"
    /\ sel_type_ = "faces"
    /\ param_dict_ = "{}"
    /\ SelectedIds(bm0, "faces") = {1, 2, 3}
    /\ SelectedIds(bm, "faces") = {1, 2, 3}

\* C3: a run started with no element of the configured kind selected raises the
\* empty-selection warning and makes no element-level call: no deselect-all, no
\* operator call, no per-element select, and every select flag is as it was.
C3_EmptySelectionWarns ==
    (RunStarted /\ SelectedPos(bm0, sel_type_) = {}) =>
        /\ pc = "failed"
        /\ error = "UserWarning"
        /\ selection_ = <<>>
        /\ NoElementCall
        /\ bm = bm0

\* C3 witness: no vertex selected (while other kinds have selected elements).
C3_Witness ==
    /\ error = "UserWarning"
    /\ sel_type_ = "verts"
    /\ SelectedPos(bm0, "verts") = {}
    /\ SelectedPos(bm0, "faces") # {}
    /\ bm = bm0

\* The apply loop was ended by an exception of the operator at the call for the
\* captured index number idx_i.
OperatorRaised == error = "OperatorError"

\* What holds once the operator has raised: the script has ended at the failing
\* call, which is the last host call; exactly idx_i operator calls were made, for
\* the first idx_i captured indices; no deselect-all follows the failing call and
\* nothing is restored.
C4_Halted ==
    /\ pc = "failed"
    /\ ~ENABLED Next
    /\ log[Len(log)].op = "action"
    /\ log[Len(log)].idx = selection_[idx_i]
    /\ IdxOf("action") = SubSeq(selection_, 1, idx_i)
    /\ CountOf("select_all") = idx_i
    /\ CountOf("restore") = 0

\* C4 as stated: an operator exception halts the run at once and the selection is
\* left in a partial state that is not the original selection.
C4_Original ==
    OperatorRaised =>
        /\ C4_Halted
        /\ SelectedIds(bm, sel_type_) # SelectedIds(bm0, sel_type_)

\* C4 amended: an operator exception halts the run at once; the selection is left
\* as the failing call left it: if the operator changed nothing before raising,
\* exactly the element at the failing index is selected, which is not the
\* original selection whenever two or more elements were captured.
C4_HaltsInPartialState ==
    OperatorRaised =>
        /\ C4_Halted
        /\ log[Len(log)].res = "raised" =>
              /\ SelectedPos(bm, sel_type_) = {selection_[idx_i] + 1}
              /\ (Len(selection_) >= 2 /\ action_.effect = "noop") =>
                    SelectedIds(bm, sel_type_) # SelectedIds(bm0, sel_type_)

\* C4 witness: the operator raised at the second of three captured indices.
C4_Witness ==
    /\ OperatorRaised
    /\ Len(selection_) = 3
    /\ idx_i = 2
    /\ log[Len(log)].res = "raised"
    /\ SelectedIds(bm, sel_type_) # SelectedIds(bm0, sel_type_)

\* C5: construction with a selection kind outside verts, edges, faces fails (with
\* NameError when the host is in edit mode) before any mesh read: no mode switch,
\* no edit-mesh handle, no element scanned.
C5_InvalidKindFailsEarly ==
    ~(SELECTION_TYPE \in {"verts", "edges", "faces"}) =>
        /\ pc \in {"init", "validate_selection_type", "failed"}
        /\ pc = "failed" =>
              error = (IF mode0 = "EDIT" THEN "NameError" ELSE "EnvironmentError")
        /\ log = <<>>
        /\ ~bm_
        /\ mode = mode0
        /\ selection_ = <<>>
        /\ bm = bm0

\* C5 witness: an invalid kind rejected in edit mode.
C5_Witness ==
    /\ SELECTION_TYPE = "polygons"
    /\ mode0 = "EDIT"
    /\ pc = "failed"
    /\ error = "NameError"

\* An action that is not callable, or whose identifier's first path segment is
\* not "mesh" (a callable without identifier has no such segment).
BadAction(a) ==
    \/ ~a.callable
    \/ ~a.has_idname
    \/ split_first(a.idname) # STR_MESH

\* C6 as stated: construction with a non-callable or non-mesh action, once the
\* action validation has run, has failed with TypeError, and no mode switch or
\* handle acquisition has happened.
C6_BadActionTypeError ==
    (/\ mode0 = "EDIT"
     /\ SELECTION_TYPE \in Kinds
     /\ BadAction(CFG_ACTION)
     /\ pc \notin {"init", "validate_selection_type", "validate_action"}) =>
        /\ pc = "failed"
        /\ error = "TypeError"
        /\ log = <<>>
        /\ ~bm_
        /\ mode = mode0

\* C7: construction outside edit mode fails with EnvironmentError before the
\* other validations and before any mutation: no mode switch, no flag change,
\* no handle.
C7_NotEditModeFails ==
    (mode0 # "EDIT" /\ pc # "init") =>
        /\ pc = "failed"
        /\ error = "EnvironmentError"
        /\ sel_type_ = "unset"
        /\ log = <<>>
        /\ mode = mode0
        /\ bm = bm0
        /\ ~bm_

\* C7 witness: object mode, with an invalid kind and a non-callable action too.
C7_Witness ==
    /\ mode0 = "OBJECT"
    /\ SELECTION_TYPE = "polygons"
    /\ ~CFG_ACTION.callable
    /\ pc = "failed"
    /\ error = "EnvironmentError"

\* Every operator call of the log passes the configured parameters, directly
\* follows the select of its index, which directly follows a deselect-all, and
\* is directly followed by a deselect-all when anything follows it.
C8_CallsFramed ==
    \A j \in 1..Len(log) :
        log[j].op = "action" =>
            /\ log[j].arg = param_dict_
            /\ j > 2
            /\ log[j - 1] = Call("select", sel_type_, log[j].idx, "")
            /\ log[j - 2].op = "select_all"
            /\ j < Len(log) => log[j + 1].op = "select_all"

\* C8 as stated: in a run whose operator never raises, the operator is invoked
\* exactly once per captured index, in captured order.
C8_Original ==
    (RunEnded /\ ~OperatorRaised) => IdxOf("action") = selection_

\* C8 amended: the operator is invoked for the captured indices in captured order,
\* each call framed as above; in a run that completes normally it is invoked
\* exactly once per captured index; a captured index that the operator's earlier
\* calls have put out of range ends the run with IndexError before its call.
C8_OncePerIndexInOrder ==
    /\ IsPrefix(IdxOf("action"), selection_)
    /\ C8_CallsFramed
    /\ pc = "done" => IdxOf("action") = selection_
    /\ (pc = "failed" /\ error = "IndexError" /\ CountOf("restore") = 0
            /\ CountOf("select_all") = idx_i) =>
          IdxOf("action") = SubSeq(selection_, 1, idx_i - 1)

\* C8 witness: a completed run over three captured indices with parameters.
C8_Witness ==
    /\ pc = "done"
    /\ Len(selection_) = 3
    /\ param_dict_ = "{thickness: 0.05}"
    /\ IdxOf("action") = selection_
    /\ CountOf("action") = 3

\* C9: when run() completes normally, the selected elements of the configured
\* kind are exactly those at the captured indices of the mesh as the loop left
\* it (nothing the operator selected or created stays selected); they are the
\* original elements only if those indices still denote them.
C9_RestoreSelectsCapturedIndices ==
    pc = "done" =>
        /\ SelectedPos(bm, sel_type_) = CapturedPos
        /\ IdxOf("restore") = selection_
        /\ (SelectedIds(bm, sel_type_) = SelectedIds(bm0, sel_type_)) <=>
              ({bm[sel_type_][p].id : p \in CapturedPos} = SelectedIds(bm0, sel_type_))

\* C9 witness: a completed run whose operator removed elements, after which the
\* captured indices denote other elements than the original ones.
C9_Witness ==
    /\ pc = "done"
    /\ action_.effect = "delete"
    /\ SelectedPos(bm, sel_type_) = CapturedPos
    /\ SelectedIds(bm, sel_type_) # SelectedIds(bm0, sel_type_)

\* C10: a successful construction leaves and re-enters edit mode exactly once,
\* after all three validations have passed, and acquires the edit-mesh handle
\* after the re-entry, the host being in edit mode when it returns; a failed
\* construction switches no mode; run() never switches the mode.
C10_ModeSwitchOnceAtSetup ==
    /\ bm_ =>
          /\ Len(log) >= 3
          /\ log[1] = Call("mode_set", "OBJECT", -1, "")
          /\ log[2] = Call("mode_set", "EDIT", -1, "")
          /\ log[3] = Call("from_edit_mesh", "", -1, "")
          /\ CountOf("mode_set") = 2
          /\ CountOf("from_edit_mesh") = 1
          /\ mode = "EDIT"
          /\ mode0 = "EDIT"
          /\ sel_type_ \in {"verts", "edges", "faces"}
          /\ action_.callable /\ split_first(action_.idname) = STR_MESH
    /\ ~bm_ => (log = <<>> /\ mode = mode0)

\* C10 witness: a run in progress after a successful construction.
C10_Witness ==
    /\ bm_
    /\ pc = "execute_action"
    /\ mode = "EDIT"
    /\ CountOf("mode_set") = 2

====
